---- MODULE Spec2Model ----
(***************************************************************************)
(* pynab/db.py: the windowed range scan (column_windows, windowed_query),  *)
(* the db_session unit of work, and the delete rules the declarative       *)
(* schema puts on its foreign keys.                                        *)
(***************************************************************************)
EXTENDS Integers, Sequences, FiniteSets, TLC

VARIABLES
    \* ---- windowed scan (db.py 67-118) ----
    table,        \* the scanned table: a set of rows [id, c, m]
    windowsize,   \* the windowsize argument
    pc,           \* position of the windowed_query generator
    intervals,    \* column_windows' local list `intervals`
    boundaries,   \* the list the ranking query returned (history)
    clauses,      \* the where-clauses column_windows has yielded (history)
    fetched,      \* per emitted clause, the rows its fetch returned (history)
    cursor,       \* rows of the current window not yet yielded
    out,          \* rows yielded to the consumer so far
    snap,         \* the table as it was when the ranking query ran (history)
    nrank,        \* how many times the ranking query was issued
    inserted,     \* how many rows concurrent writers have inserted
    \* ---- db_session (db.py 54-63) ----
    spc,          \* position inside db_session / the with-block
    pending,      \* writes of the open transaction
    committed,    \* writes made durable by commit()
    raised,       \* the exception currently propagating inside db_session
    bodyExc,      \* the exception the with-body raised (history)
    commitExc,    \* the exception commit() raised (history)
    rollbackExc,  \* the exception rollback() raised (history)
    propagated,   \* the exception the caller of the with-block received
    ncommit,      \* commit() calls in this with-block
    nrollback,    \* rollback() calls in this with-block
    \* ---- schema (db.py 121-299) ----
    binaries,     \* ids of rows in `binaries`
    parts,        \* parts rows: id -> binary_id
    segments,     \* segments rows: id -> part_id
    releases,     \* releases rows: id -> [slot -> metablack id]
    metablack,    \* ids of rows in `metablack`
    files,        \* files rows: id -> release_id
    last          \* the last DELETE statement and the database before it (history)

wvars == <<table, windowsize, pc, intervals, boundaries, clauses, fetched,
           cursor, out, snap, nrank, inserted>>
svars == <<spc, pending, committed, raised, bodyExc, commitExc, rollbackExc,
           propagated, ncommit, nrollback>>
dvars == <<binaries, parts, segments, releases, metablack, files, last>>
vars == <<wvars, svars, dvars>>

-----------------------------------------------------------------------------
(* Bounds                                                                  *)

MaxRows == 3        \* rows in the scanned table (initial rows plus inserts)
MaxWindow == 3      \* largest windowsize tried
MaxInserts == 2     \* rows concurrent writers insert during one scan

\* Values of the ordering column: negative, zero and positive.
CVals == {-1, 0, 1}

\* Python's None / SQL NULL as the empty option; a present value v as {v}.
None == {}
Some(v) == {v}

-----------------------------------------------------------------------------
(* Pure helpers of the windowed scan                                       *)

Range(s) == {s[i] : i \in 1..Len(s)}

MinC(T) == CHOOSE v \in {r.c : r \in T} : \A r \in T : v <= r.c

MaxOfC(T) == CHOOSE v \in {r.c : r \in T} : \A r \in T : v >= r.c

\* Mutant of OrderByColumn: the ranking runs in descending order.
RECURSIVE OrderByColumnDesc(_)
OrderByColumnDesc(T) ==
    IF T = {} THEN <<>>
    ELSE LET r == CHOOSE x \in T : x.c = MaxOfC(T)
         IN  <<r.c>> \o OrderByColumnDesc(T \ {r})

\* ORDER BY column over all rows of T, projected on the column: the values in
\* ascending order, one per row (row_number() ranks rows, not distinct values).
RECURSIVE OrderByColumn(_)
OrderByColumn(T) ==
    IF T = {} THEN <<>>
    ELSE LET r == CHOOSE x \in T : x.c = MinC(T)
         IN  <<r.c>> \o OrderByColumn(T \ {r})

\* Mutant of KeepRow: the modulus is off by one.
KeepRowOffByOne(rownum, w) == (w > 1) => (rownum % (w + 1) = 1)

\* filter("rownum % windowsize = 1") applied when windowsize > 1; rownum is 1-based.
KeepRow(rownum, w) == (w > 1) => (rownum % w = 1)

RECURSIVE FilterRanks(_, _, _)
FilterRanks(s, i, w) ==
    IF i > Len(s) THEN <<>>
    ELSE (IF KeepRow(i, w) THEN <<s[i]>> ELSE <<>>) \o FilterRanks(s, i + 1, w)

\* intervals = [id for id, in q].  The outer SELECT carries no ORDER BY of its
\* own; PostgreSQL returns the rows in the order the window's sort produced
\* them, which is the order modelled.
RankQuery(T, w) == FilterRanks(OrderByColumn(T), 1, w)

\* Python truth value of end_id: None and 0 are both false.
Truthy(e) == e # None /\ e # Some(0)

\* int_for_range(start_id, end_id): a where-clause [lo, hi); hi = None is no upper bound.
int_for_range(start_id, end_id) ==
    IF Truthy(end_id)
    THEN [lo |-> start_id, hi |-> end_id]
    ELSE [lo |-> start_id, hi |-> None]

\* A row satisfies a where-clause.
Matches(r, cl) == r.c >= cl.lo /\ \A h \in cl.hi : r.c < h

\* q: the base query's own filter.
BaseQuery(T) == {r \in T : r.m}

\* q.filter(whereclause)
FilterQuery(T, cl) == {r \in BaseQuery(T) : Matches(r, cl)}

\* The result orders ORDER BY column allows for a row set: every arrangement of
\* the rows that is ascending in c (rows with equal c come in any order).
RECURSIVE Orderings(_)
Orderings(S) ==
    IF S = {} THEN {<<>>}
    ELSE LET lows == {r \in S : r.c = MinC(S)}
         IN  UNION {{<<r>> \o t : t \in Orderings(S \ {r})} : r \in lows}

-----------------------------------------------------------------------------
(* The windowed scan: windowed_query driving column_windows                *)

\* The tables of n rows with ids 1..n whose base-filter flags come from Ms.
Tables(n, Ms) ==
    {{[id |-> i, c |-> f[i].c, m |-> f[i].m] : i \in 1..n} :
        f \in [1..n -> [c : CVals, m : Ms]]}

WInit ==
    /\ \E n \in 0..MaxRows : table \in Tables(n, BOOLEAN)
    /\ windowsize \in 0..MaxWindow
    /\ pc = "start"
    /\ intervals = <<>>
    /\ boundaries = <<>>
    /\ clauses = <<>>
    /\ fetched = <<>>
    /\ cursor = <<>>
    /\ out = <<>>
    /\ snap = {}
    /\ nrank = 0
    /\ inserted = 0

\* First next(): column_windows runs the ranking query and keeps its result.
RunRankQuery ==
    /\ pc = "start"
    /\ intervals' = RankQuery(table, windowsize)
    /\ boundaries' = RankQuery(table, windowsize)
    /\ snap' = table
    /\ nrank' = nrank + 1
    /\ pc' = "windows"
    /\ UNCHANGED <<table, windowsize, clauses, fetched, cursor, out, inserted>>

\* The ranking query raises: the error leaves windowed_query.
RankQueryFails ==
    /\ pc = "start"
    /\ nrank' = nrank + 1
    /\ pc' = "rank_error"
    /\ UNCHANGED <<table, windowsize, intervals, boundaries, clauses, fetched,
                   cursor, out, snap, inserted>>

\* The clause column_windows yields for the head of `intervals`.
NextClause(iv) ==
    int_for_range(Head(iv), IF Tail(iv) # <<>> THEN Some(Head(Tail(iv))) ELSE None)

\* Mutant of FetchWindow: the ranking query is issued again for every window.
FetchWindowRerank ==
    /\ pc = "windows"
    /\ intervals # <<>>
    /\ LET cl == NextClause(intervals)
       IN  /\ clauses' = Append(clauses, cl)
           /\ \E rows \in Orderings(FilterQuery(table, cl)) :
                /\ cursor' = rows
                /\ fetched' = Append(fetched, rows)
    /\ intervals' = Tail(intervals)
    /\ nrank' = nrank + 1
    /\ pc' = "rows"
    /\ UNCHANGED <<table, windowsize, boundaries, out, snap, inserted>>

\* while intervals: pop(0), yield int_for_range(start, end); windowed_query
\* then runs q.filter(whereclause).order_by(column).
FetchWindow ==
    /\ pc = "windows"
    /\ intervals # <<>>
    /\ LET cl == NextClause(intervals)
       IN  /\ clauses' = Append(clauses, cl)
           /\ \E rows \in Orderings(FilterQuery(table, cl)) :
                /\ cursor' = rows
                /\ fetched' = Append(fetched, rows)
    /\ intervals' = Tail(intervals)
    /\ pc' = "rows"
    /\ UNCHANGED <<table, windowsize, boundaries, out, snap, nrank, inserted>>

\* The per-window query raises: the error leaves windowed_query.
FetchWindowFails ==
    /\ pc = "windows"
    /\ intervals # <<>>
    /\ clauses' = Append(clauses, NextClause(intervals))
    /\ intervals' = Tail(intervals)
    /\ pc' = "fetch_error"
    /\ UNCHANGED <<table, windowsize, boundaries, fetched, cursor, out, snap,
                   nrank, inserted>>

\* for row in ...: yield row
YieldRow ==
    /\ pc = "rows"
    /\ cursor # <<>>
    /\ out' = Append(out, Head(cursor))
    /\ cursor' = Tail(cursor)
    /\ UNCHANGED <<table, windowsize, pc, intervals, boundaries, clauses,
                   fetched, snap, nrank, inserted>>

\* The inner for loop is exhausted: back to column_windows' while loop.
WindowDone ==
    /\ pc = "rows"
    /\ cursor = <<>>
    /\ pc' = "windows"
    /\ UNCHANGED <<table, windowsize, intervals, boundaries, clauses, fetched,
                   cursor, out, snap, nrank, inserted>>

\* while intervals: is false, both generators return.
ScanDone ==
    /\ pc = "windows"
    /\ intervals = <<>>
    /\ pc' = "done"
    /\ UNCHANGED <<table, windowsize, intervals, boundaries, clauses, fetched,
                   cursor, out, snap, nrank, inserted>>

\* A concurrent writer inserts one row into the scanned table.
InsertRow ==
    /\ pc \in {"windows", "rows"}
    /\ inserted < MaxInserts
    /\ Cardinality(table) < MaxRows
    /\ \E v \in CVals, b \in BOOLEAN :
         table' = table \cup {[id |-> Cardinality(table) + 1, c |-> v, m |-> b]}
    /\ inserted' = inserted + 1
    /\ UNCHANGED <<windowsize, pc, intervals, boundaries, clauses, fetched,
                   cursor, out, snap, nrank>>

-----------------------------------------------------------------------------
(* db_session: the unit of work                                            *)

MaxWrites == 2      \* distinct values the with-body may write

WriteVals == 1..MaxWrites
ExcTypes == {"IntegrityError", "OperationalError"}

\* An exception object; `by` is the call that raised it, so that two raises
\* never produce the same object.
Exc(by, type) == [by |-> by, type |-> type]

SInit ==
    /\ spc = "idle"
    /\ pending = {}
    /\ committed = {}
    /\ raised = None
    /\ bodyExc = None
    /\ commitExc = None
    /\ rollbackExc = None
    /\ propagated = None
    /\ ncommit = 0
    /\ nrollback = 0

\* with db_session() as db: session = Session(); yield session.  Session is a
\* scoped_session, so the same session (and what it still holds) comes back.
EnterSession ==
    /\ spc \in {"idle", "exited"}
    /\ spc' = "body"
    /\ raised' = None
    /\ bodyExc' = None
    /\ commitExc' = None
    /\ rollbackExc' = None
    /\ propagated' = None
    /\ ncommit' = 0
    /\ nrollback' = 0
    /\ UNCHANGED <<pending, committed>>

\* The with-body adds a write to the session.
BodyWrites ==
    /\ spc = "body"
    /\ \E v \in WriteVals : pending' = pending \cup {v}
    /\ UNCHANGED <<spc, committed, raised, bodyExc, commitExc, rollbackExc,
                   propagated, ncommit, nrollback>>

\* The with-body ends normally: the generator resumes after the yield.
BodyReturns ==
    /\ spc = "body"
    /\ spc' = "commit"
    /\ UNCHANGED <<pending, committed, raised, bodyExc, commitExc, rollbackExc,
                   propagated, ncommit, nrollback>>

\* The with-body raises: the exception is thrown into the generator at the yield.
BodyRaises ==
    /\ spc = "body"
    /\ \E t \in ExcTypes :
         /\ raised' = Some(Exc("body", t))
         /\ bodyExc' = Some(Exc("body", t))
    /\ spc' = "except"
    /\ UNCHANGED <<pending, committed, commitExc, rollbackExc, propagated,
                   ncommit, nrollback>>

\* session.commit() returns; the generator ends and the with-block exits.
CommitReturns ==
    /\ spc = "commit"
    /\ ncommit' = ncommit + 1
    /\ committed' = committed \cup pending
    /\ pending' = {}
    /\ propagated' = None
    /\ spc' = "exited"
    /\ UNCHANGED <<raised, bodyExc, commitExc, rollbackExc, nrollback>>

\* session.commit() raises: control passes to the bare except.
CommitRaises ==
    /\ spc = "commit"
    /\ ncommit' = ncommit + 1
    /\ \E t \in ExcTypes :
         /\ raised' = Some(Exc("commit", t))
         /\ commitExc' = Some(Exc("commit", t))
    /\ spc' = "except"
    /\ UNCHANGED <<pending, committed, bodyExc, rollbackExc, propagated, nrollback>>

\* Mutant of Reraise: the except block ends without raising.
ReraiseNothing(exc) == None

\* The bare `raise` after rollback(): re-raises the exception being handled.
Reraise(exc) == exc

\* except: session.rollback() returns, then raise.
RollbackReturns ==
    /\ spc = "except"
    /\ nrollback' = nrollback + 1
    /\ pending' = {}
    /\ propagated' = Reraise(raised)
    /\ spc' = "exited"
    /\ UNCHANGED <<committed, raised, bodyExc, commitExc, rollbackExc, ncommit>>

\* except: session.rollback() itself raises; the `raise` line is never reached
\* and rollback's exception leaves db_session.
RollbackRaises ==
    /\ spc = "except"
    /\ nrollback' = nrollback + 1
    /\ \E t \in ExcTypes :
         /\ rollbackExc' = Some(Exc("rollback", t))
         /\ propagated' = Some(Exc("rollback", t))
    /\ spc' = "exited"
    /\ UNCHANGED <<pending, committed, raised, bodyExc, commitExc, ncommit>>

-----------------------------------------------------------------------------
(* The schema's foreign keys and what a DELETE does under them             *)

MaxBinaries == 2
MaxParts == 2
MaxSegments == 2
MaxReleases == 2
MaxMetaBlack == 2
MaxFiles == 1

BinaryIds == 1..MaxBinaries
PartIds == 1..MaxParts
SegmentIds == 1..MaxSegments
ReleaseIds == 1..MaxReleases
MetaBlackIds == 1..MaxMetaBlack
FileIds == 1..MaxFiles

\* Release.<slot>_metablack_id columns.
Slots == {"tvshow", "movie", "rar", "nfo", "sfv"}

\* Mutant of PartBinaryOnDelete: the foreign key is declared ON DELETE SET NULL.
PartBinaryOnDeleteSetNull == "SET NULL"

\* parts.binary_id = ForeignKey('binaries.id', ondelete='CASCADE')
PartBinaryOnDelete == "CASCADE"
\* segments.part_id = ForeignKey('parts.id', ondelete='CASCADE')
SegmentPartOnDelete == "CASCADE"
\* files.release_id = ForeignKey('releases.id', ondelete='CASCADE')
FileReleaseOnDelete == "CASCADE"
\* releases.<slot>_metablack_id = ForeignKey('metablack.id', ondelete='CASCADE')
ReleaseMetaBlackOnDelete(slot) == "CASCADE"

\* References(ref, gone): the nullable foreign key value ref points at a deleted row.
References(ref, gone) == ref \cap gone # {}

\* Child rows (id -> foreign key) the rule deletes when the rows `gone` are deleted.
ChildDeleted(rule, child, gone) ==
    IF rule = "CASCADE"
    THEN {x \in DOMAIN child : References(child[x], gone)}
    ELSE {}

\* The child table after the parent rows `gone` are deleted.
ChildAfterDelete(rule, child, gone) ==
    CASE rule = "CASCADE" ->
           [x \in DOMAIN child \ ChildDeleted(rule, child, gone) |-> child[x]]
      [] rule = "SET NULL" ->
           [x \in DOMAIN child |-> IF References(child[x], gone) THEN None ELSE child[x]]
      [] OTHER -> child

\* NO ACTION (no ondelete given): a referenced parent row cannot be deleted.
ChildBlocks(rule, child, gone) ==
    /\ rule \notin {"CASCADE", "SET NULL"}
    /\ \E x \in DOMAIN child : References(child[x], gone)

\* Releases deleted when the metablack rows `gone` are deleted.
ReleasesDeleted(rel, gone) ==
    {r \in DOMAIN rel :
        \E s \in Slots : /\ ReleaseMetaBlackOnDelete(s) = "CASCADE"
                         /\ References(rel[r][s], gone)}

\* The releases table after the metablack rows `gone` are deleted.
ReleasesAfterDelete(rel, gone) ==
    [r \in DOMAIN rel \ ReleasesDeleted(rel, gone) |->
        [s \in Slots |->
            IF ReleaseMetaBlackOnDelete(s) = "SET NULL" /\ References(rel[r][s], gone)
            THEN None ELSE rel[r][s]]]

ReleasesBlock(rel, gone) ==
    \E r \in DOMAIN rel, s \in Slots :
        /\ ReleaseMetaBlackOnDelete(s) \notin {"CASCADE", "SET NULL"}
        /\ References(rel[r][s], gone)

Db == [binaries |-> binaries, parts |-> parts, segments |-> segments,
       releases |-> releases, metablack |-> metablack, files |-> files]

EmptyDb == [binaries |-> {}, parts |-> <<>>, segments |-> <<>>,
            releases |-> <<>>, metablack |-> {}, files |-> <<>>]

NoDelete == [op |-> "none", id |-> 0, pre |-> EmptyDb]

\* f with the row id -> v added.
WithRow(f, id, v) == [x \in DOMAIN f \cup {id} |-> IF x = id THEN v ELSE f[x]]
\* f without the rows ids.
WithoutRows(f, ids) == [x \in DOMAIN f \ ids |-> f[x]]

\* The values a nullable foreign key to the rows `ids` may take.
Refs(ids) == {None} \cup {Some(i) : i \in ids}

DInit ==
    /\ binaries = {}
    /\ parts = <<>>
    /\ segments = <<>>
    /\ releases = <<>>
    /\ metablack = {}
    /\ files = <<>>
    /\ last = NoDelete

InsertBinary ==
    /\ \E b \in BinaryIds \ binaries : binaries' = binaries \cup {b}
    /\ last' = NoDelete
    /\ UNCHANGED <<parts, segments, releases, metablack, files>>

InsertPart ==
    /\ \E p \in PartIds \ DOMAIN parts, ref \in Refs(binaries) :
         parts' = WithRow(parts, p, ref)
    /\ last' = NoDelete
    /\ UNCHANGED <<binaries, segments, releases, metablack, files>>

InsertSegment ==
    /\ \E g \in SegmentIds \ DOMAIN segments, ref \in Refs(DOMAIN parts) :
         segments' = WithRow(segments, g, ref)
    /\ last' = NoDelete
    /\ UNCHANGED <<binaries, parts, releases, metablack, files>>

\* DELETE FROM segments WHERE id = g
DeleteSegment ==
    /\ \E g \in DOMAIN segments :
         /\ segments' = WithoutRows(segments, {g})
         /\ last' = [op |-> "DeleteSegment", id |-> g, pre |-> Db]
    /\ UNCHANGED <<binaries, parts, releases, metablack, files>>

\* DELETE FROM parts WHERE id = p
DeletePart ==
    /\ \E p \in DOMAIN parts :
         /\ ~ChildBlocks(SegmentPartOnDelete, segments, {p})
         /\ parts' = WithoutRows(parts, {p})
         /\ segments' = ChildAfterDelete(SegmentPartOnDelete, segments, {p})
         /\ last' = [op |-> "DeletePart", id |-> p, pre |-> Db]
    /\ UNCHANGED <<binaries, releases, metablack, files>>

\* DELETE FROM binaries WHERE id = b
DeleteBinary ==
    /\ \E b \in binaries :
         LET goneParts == ChildDeleted(PartBinaryOnDelete, parts, {b})
         IN  /\ ~ChildBlocks(PartBinaryOnDelete, parts, {b})
             /\ ~ChildBlocks(SegmentPartOnDelete, segments, goneParts)
             /\ binaries' = binaries \ {b}
             /\ parts' = ChildAfterDelete(PartBinaryOnDelete, parts, {b})
             /\ segments' = ChildAfterDelete(SegmentPartOnDelete, segments, goneParts)
             /\ last' = [op |-> "DeleteBinary", id |-> b, pre |-> Db]
    /\ UNCHANGED <<releases, metablack, files>>

InsertMetaBlack ==
    /\ \E k \in MetaBlackIds \ metablack : metablack' = metablack \cup {k}
    /\ last' = NoDelete
    /\ UNCHANGED <<binaries, parts, segments, releases, files>>

\* A new Release: no enrichment has been attempted, every metablack slot is NULL.
InsertRelease ==
    /\ \E r \in ReleaseIds \ DOMAIN releases :
         releases' = WithRow(releases, r, [s \in Slots |-> None])
    /\ last' = NoDelete
    /\ UNCHANGED <<binaries, parts, segments, metablack, files>>

\* release.<slot>_metablack_id = k.  MetaBlack.<slot> is uselist=False: a
\* MetaBlack row is the <slot> entry of at most one Release.
SetMetaBlack ==
    /\ \E r \in DOMAIN releases, s \in Slots, k \in metablack :
         /\ \A r2 \in DOMAIN releases : releases[r2][s] # Some(k)
         /\ releases' = [releases EXCEPT ![r][s] = Some(k)]
    /\ last' = NoDelete
    /\ UNCHANGED <<binaries, parts, segments, metablack, files>>

InsertFile ==
    /\ \E f \in FileIds \ DOMAIN files, ref \in Refs(DOMAIN releases) :
         files' = WithRow(files, f, ref)
    /\ last' = NoDelete
    /\ UNCHANGED <<binaries, parts, segments, releases, metablack>>

\* DELETE FROM releases WHERE id = r
DeleteRelease ==
    /\ \E r \in DOMAIN releases :
         /\ ~ChildBlocks(FileReleaseOnDelete, files, {r})
         /\ releases' = WithoutRows(releases, {r})
         /\ files' = ChildAfterDelete(FileReleaseOnDelete, files, {r})
         /\ last' = [op |-> "DeleteRelease", id |-> r, pre |-> Db]
    /\ UNCHANGED <<binaries, parts, segments, metablack>>

\* DELETE FROM metablack WHERE id = k
DeleteMetaBlack ==
    /\ \E k \in metablack :
         LET goneReleases == ReleasesDeleted(releases, {k})
         IN  /\ ~ReleasesBlock(releases, {k})
             /\ ~ChildBlocks(FileReleaseOnDelete, files, goneReleases)
             /\ metablack' = metablack \ {k}
             /\ releases' = ReleasesAfterDelete(releases, {k})
             /\ files' = ChildAfterDelete(FileReleaseOnDelete, files, goneReleases)
             /\ last' = [op |-> "DeleteMetaBlack", id |-> k, pre |-> Db]
    /\ UNCHANGED <<binaries, parts, segments>>

-----------------------------------------------------------------------------
(* Specifications                                                          *)

WIdle ==
    /\ table = {} /\ windowsize = 0 /\ pc = "unused" /\ intervals = <<>>
    /\ boundaries = <<>> /\ clauses = <<>> /\ fetched = <<>> /\ cursor = <<>>
    /\ out = <<>> /\ snap = {} /\ nrank = 0 /\ inserted = 0

SIdle ==
    /\ spc = "unused" /\ pending = {} /\ committed = {} /\ raised = None
    /\ bodyExc = None /\ commitExc = None /\ rollbackExc = None
    /\ propagated = None /\ ncommit = 0 /\ nrollback = 0

\* One windowed_query iteration, no concurrent writer.
Init == WInit /\ SIdle /\ DInit

Next ==
    \/ RunRankQuery /\ UNCHANGED <<svars, dvars>>
    \/ RankQueryFails /\ UNCHANGED <<svars, dvars>>
    \/ FetchWindow /\ UNCHANGED <<svars, dvars>>
    \/ FetchWindowFails /\ UNCHANGED <<svars, dvars>>
    \/ YieldRow /\ UNCHANGED <<svars, dvars>>
    \/ WindowDone /\ UNCHANGED <<svars, dvars>>
    \/ ScanDone /\ UNCHANGED <<svars, dvars>>

Spec == Init /\ [][Next]_vars

\* One windowed_query iteration while writers insert rows.
NextWriters ==
    \/ Next
    \/ InsertRow /\ UNCHANGED <<svars, dvars>>

SpecWriters == Init /\ [][NextWriters]_vars

\* column_windows' boundary computation on its own.  It reads nothing but the
\* column, so the base-filter flag of every row is TRUE here.
MaxPartRows == 5

InitPartition ==
    /\ \E n \in 0..MaxPartRows : table \in Tables(n, {TRUE})
    /\ windowsize \in 0..MaxWindow
    /\ pc = "start" /\ intervals = <<>> /\ boundaries = <<>> /\ clauses = <<>>
    /\ fetched = <<>> /\ cursor = <<>> /\ out = <<>> /\ snap = {}
    /\ nrank = 0 /\ inserted = 0
    /\ SIdle /\ DInit

NextPartition ==
    \/ RunRankQuery /\ UNCHANGED <<svars, dvars>>
    \/ RankQueryFails /\ UNCHANGED <<svars, dvars>>

SpecPartition == InitPartition /\ [][NextPartition]_vars

\* with db_session() as db: ..., entered again and again on the same thread.
InitSession == WIdle /\ SInit /\ DInit

NextSession ==
    \/ EnterSession /\ UNCHANGED <<wvars, dvars>>
    \/ BodyWrites /\ UNCHANGED <<wvars, dvars>>
    \/ BodyReturns /\ UNCHANGED <<wvars, dvars>>
    \/ BodyRaises /\ UNCHANGED <<wvars, dvars>>
    \/ CommitReturns /\ UNCHANGED <<wvars, dvars>>
    \/ CommitRaises /\ UNCHANGED <<wvars, dvars>>
    \/ RollbackReturns /\ UNCHANGED <<wvars, dvars>>
    \/ RollbackRaises /\ UNCHANGED <<wvars, dvars>>

SpecSession == InitSession /\ [][NextSession]_vars

\* Statements against binaries, parts and segments.
InitParts == WIdle /\ SIdle /\ DInit

NextParts ==
    \/ InsertBinary /\ UNCHANGED <<wvars, svars>>
    \/ InsertPart /\ UNCHANGED <<wvars, svars>>
    \/ InsertSegment /\ UNCHANGED <<wvars, svars>>
    \/ DeleteSegment /\ UNCHANGED <<wvars, svars>>
    \/ DeletePart /\ UNCHANGED <<wvars, svars>>
    \/ DeleteBinary /\ UNCHANGED <<wvars, svars>>

SpecParts == InitParts /\ [][NextParts]_vars

\* Statements against releases, metablack and files.
InitMeta == WIdle /\ SIdle /\ DInit

NextMeta ==
    \/ InsertMetaBlack /\ UNCHANGED <<wvars, svars>>
    \/ InsertRelease /\ UNCHANGED <<wvars, svars>>
    \/ SetMetaBlack /\ UNCHANGED <<wvars, svars>>
    \/ InsertFile /\ UNCHANGED <<wvars, svars>>
    \/ DeleteRelease /\ UNCHANGED <<wvars, svars>>
    \/ DeleteMetaBlack /\ UNCHANGED <<wvars, svars>>

SpecMeta == InitMeta /\ [][NextMeta]_vars

-----------------------------------------------------------------------------
(* Properties                                                              *)

\* How many times row r occurs in the sequence s.
Count(s, r) == Cardinality({i \in 1..Len(s) : s[i] = r})

RECURSIVE Flatten(_)
Flatten(ss) == IF ss = <<>> THEN <<>> ELSE Head(ss) \o Flatten(Tail(ss))

\* How many rows of T hold the value v in the ordering column.
Mult(T, v) == Cardinality({r \in T : r.c = v})

\* The rows of T whose ordering column lies in [lo, hi).
RowsIn(T, lo, hi) == {r \in T : lo <= r.c /\ r.c < hi}

\* C1: with no concurrent writes, when the iteration has finished the rows
\* yielded are exactly the rows of the base query, each one once: no row is
\* yielded twice and none is missed.
C1_YieldsBaseQueryOnce ==
    pc = "done" =>
        \A r \in table \cup Range(out) :
            Count(out, r) = (IF r \in BaseQuery(table) THEN 1 ELSE 0)

\* C2: with no concurrent writes, the rows yielded so far are non-decreasing in
\* the ordering column, across window boundaries too.
C2_NonDecreasingOutput ==
    \A i, j \in 1..Len(out) : i < j => out[i].c <= out[j].c

\* C3: the k-th where-clause emitted is C >= b_k AND C < b_{k+1} for every
\* non-final boundary b_k, whatever value b_{k+1} has, and C >= b_n for the
\* last one; a finished iteration has emitted one clause per boundary.
C3_ClausePerBoundary ==
    /\ Len(clauses) <= Len(boundaries)
    /\ \A k \in 1..Len(clauses) :
         clauses[k] = [lo |-> boundaries[k],
                       hi |-> IF k < Len(boundaries)
                              THEN Some(boundaries[k + 1]) ELSE None]
    /\ pc = "done" => Len(clauses) = Len(boundaries)

\* C4 as stated: for a positive windowsize the boundaries are strictly
\* increasing, also when rows share a value of C.
C4_StrictlyIncreasing ==
    (pc = "windows" /\ windowsize >= 1) =>
        \A i \in 1..(Len(boundaries) - 1) : boundaries[i] < boundaries[i + 1]

\* C4 amended: for a positive windowsize the boundaries are non-decreasing,
\* and strictly increasing whenever no value of C is held by more than
\* windowsize rows.
C4_NonDecreasing ==
    (pc = "windows" /\ windowsize >= 1) =>
        /\ \A i \in 1..(Len(boundaries) - 1) : boundaries[i] <= boundaries[i + 1]
        /\ (\A v \in CVals : Mult(snap, v) <= windowsize) =>
              \A i \in 1..(Len(boundaries) - 1) : boundaries[i] < boundaries[i + 1]

\* C4 witness: boundaries computed with windowsize 2 over a table in which
\* rows share values of C, giving three strictly increasing boundaries.
C4_Witness ==
    /\ pc = "windows" /\ windowsize = 2
    /\ Len(boundaries) = 3
    /\ \E v \in CVals : Mult(snap, v) = 2
    /\ boundaries[1] < boundaries[2] /\ boundaries[2] < boundaries[3]

\* C5 as stated: for windowsize > 1 every non-final window [b_i, b_{i+1})
\* holds at most windowsize rows of the table, duplicates of C included.
C5_AtMostWindowsize ==
    (pc = "windows" /\ windowsize > 1) =>
        \A i \in 1..(Len(boundaries) - 1) :
            Cardinality(RowsIn(snap, boundaries[i], boundaries[i + 1])) <= windowsize

\* C5 amended: for windowsize > 1 every non-final interval [b_i, b_{i+1})
\* holds at most windowsize + d - 1 rows, d being the number of rows whose C
\* equals b_i; so at most windowsize rows when the values of C are distinct.
C5_AtMostWindowsizePlusDuplicates ==
    (pc = "windows" /\ windowsize > 1) =>
        \A i \in 1..(Len(boundaries) - 1) :
            Cardinality(RowsIn(snap, boundaries[i], boundaries[i + 1]))
                <= windowsize + Mult(snap, boundaries[i]) - 1

\* C5 witness: a non-final interval that holds more than windowsize rows
\* because rows share its lower boundary.
C5_Witness ==
    /\ pc = "windows" /\ windowsize > 1
    /\ \E i \in 1..(Len(boundaries) - 1) :
         /\ Cardinality(RowsIn(snap, boundaries[i], boundaries[i + 1])) > windowsize
         /\ Mult(snap, boundaries[i]) > 1

\* C6 as stated: when the with-block has exited: body and commit() both
\* returned => one commit(), no rollback(), nothing propagates; the body
\* raised => no commit(), one rollback(), the body's exception propagates;
\* commit() raised => one rollback(), commit's exception propagates; an
\* exception raised anywhere is never swallowed.
C6_CommitOrRollbackAndReraise ==
    spc = "exited" =>
        /\ (bodyExc = None /\ commitExc = None) =>
              (ncommit = 1 /\ nrollback = 0 /\ propagated = None)
        /\ bodyExc # None =>
              (ncommit = 0 /\ nrollback = 1 /\ propagated = bodyExc)
        /\ commitExc # None =>
              (ncommit = 1 /\ nrollback = 1 /\ propagated = commitExc)
        /\ (bodyExc # None \/ commitExc # None \/ rollbackExc # None) =>
              propagated # None

\* C6 amended: as C6, except that when rollback() itself raises it is
\* rollback's exception that propagates, in place of the body's or commit's.
C6_ReraiseUnlessRollbackRaises ==
    spc = "exited" =>
        /\ (bodyExc = None /\ commitExc = None) =>
              (ncommit = 1 /\ nrollback = 0 /\ propagated = None)
        /\ bodyExc # None =>
              /\ ncommit = 0 /\ nrollback = 1
              /\ propagated = (IF rollbackExc # None THEN rollbackExc ELSE bodyExc)
        /\ commitExc # None =>
              /\ ncommit = 1 /\ nrollback = 1
              /\ propagated = (IF rollbackExc # None THEN rollbackExc ELSE commitExc)
        /\ (bodyExc # None \/ commitExc # None \/ rollbackExc # None) =>
              propagated # None

\* C6 witness: the body raised, rollback() returned, and the with-block
\* exited with the body's exception and nothing left pending.
C6_Witness ==
    /\ spc = "exited" /\ bodyExc # None /\ rollbackExc = None
    /\ nrollback = 1 /\ pending = {} /\ propagated = bodyExc

\* C7: with writers that only insert, when the iteration has finished every
\* row of the base query that was in the table when the boundaries were
\* computed has been yielded exactly once.
C7_SnapshotRowsOnce ==
    pc = "done" => \A r \in BaseQuery(snap) : Count(out, r) = 1

C8_State ==
    /\ nrank <= 1
    /\ pc # "start" => nrank = 1
    /\ clauses # <<>> => (nrank = 1 /\ pc \notin {"start", "rank_error"})
    /\ Len(clauses) <= Len(boundaries)
    /\ \A k \in 1..Len(clauses) : clauses[k].lo = boundaries[k]
    /\ Len(clauses) - Len(fetched) \in {0, 1}
    /\ pc = "rank_error" => (out = <<>> /\ clauses = <<>>)
    /\ pc = "fetch_error" =>
          (Len(fetched) = Len(clauses) - 1 /\ out = Flatten(fetched))

C8_Step ==
    /\ clauses' # clauses => (cursor = <<>> /\ out = Flatten(fetched))
    /\ pc \in {"rank_error", "fetch_error"} => (out' = out /\ pc' = pc)

\* C8: the ranking query runs once and before any window is fetched; windows
\* are fetched one at a time in boundary order, the next only when every row
\* of the one before has been yielded; after a failed ranking query nothing
\* has been yielded; after a failed fetch of window k exactly the rows of the
\* windows before k have been yielded, and nothing is yielded afterwards.
C8_RankOnceThenWindowsInOrder == []C8_State /\ [][C8_Step]_vars

\* C8 witness: the fetch of the second window failed after the first window's
\* rows were yielded.
C8_Witness ==
    /\ pc = "fetch_error" /\ Len(clauses) = 2 /\ Len(boundaries) = 3
    /\ out # <<>> /\ out = fetched[1]

\* C9 as stated: deleting a Part deletes exactly the Segments that reference
\* it; deleting a Binary leaves every Part and every Segment in place.
C9_BinaryDeleteKeepsParts ==
    /\ last.op = "DeletePart" =>
          DOMAIN segments =
              {g \in DOMAIN last.pre.segments : last.pre.segments[g] # Some(last.id)}
    /\ last.op = "DeleteBinary" =>
          /\ DOMAIN parts = DOMAIN last.pre.parts
          /\ DOMAIN segments = DOMAIN last.pre.segments

\* C9 amended: deleting a Part deletes exactly the Segments that reference
\* it; deleting a Binary deletes exactly the Parts whose binary_id references
\* it and, with them, exactly the Segments of those Parts; every other Part
\* and Segment is left as it was.
C9_BinaryDeleteCascadesToParts ==
    /\ last.op = "DeletePart" =>
          /\ segments = WithoutRows(last.pre.segments,
                 {g \in DOMAIN last.pre.segments : last.pre.segments[g] = Some(last.id)})
          /\ parts = WithoutRows(last.pre.parts, {last.id})
    /\ last.op = "DeleteBinary" =>
          LET goneP == {p \in DOMAIN last.pre.parts : last.pre.parts[p] = Some(last.id)}
              goneS == {g \in DOMAIN last.pre.segments :
                            \E p \in goneP : last.pre.segments[g] = Some(p)}
          IN  /\ binaries = last.pre.binaries \ {last.id}
              /\ parts = WithoutRows(last.pre.parts, goneP)
              /\ segments = WithoutRows(last.pre.segments, goneS)

\* C9 witness: a Binary was deleted that a Part with a Segment referenced,
\* while another Part did not reference it.
C9_Witness ==
    /\ last.op = "DeleteBinary"
    /\ \E p \in DOMAIN last.pre.parts, g \in DOMAIN last.pre.segments :
         /\ last.pre.parts[p] = Some(last.id)
         /\ last.pre.segments[g] = Some(p)
    /\ \E p \in DOMAIN last.pre.parts : last.pre.parts[p] # Some(last.id)

\* C10: deleting a MetaBlack row leaves every Release in place; it clears the
\* slots that referenced the row and changes no other slot and no other
\* MetaBlack row.
C10_MetaBlackDeleteClearsSlot ==
    last.op = "DeleteMetaBlack" =>
        /\ metablack = last.pre.metablack \ {last.id}
        /\ DOMAIN releases = DOMAIN last.pre.releases
        /\ \A r \in DOMAIN releases, s \in Slots :
             releases[r][s] = (IF last.pre.releases[r][s] = Some(last.id)
                               THEN None ELSE last.pre.releases[r][s])

====
